---- MODULE Spec2Model ----
(***************************************************************************)
(* Model of src/api/app.py: the startup pipeline load_and_process_data,    *)
(* the seven process-wide variables it fills, and the request handlers     *)
(* that read them.                                                         *)
(*                                                                         *)
(* The computation stages (the loaders, the calculate, statistics and      *)
(* generate functions) are imported from kpi_master_v1_07, which is not    *)
(* part of src/.  Each stage is modelled by the shape of its result as     *)
(* described in spec.md sections 3 and 4; every stage may also raise.      *)
(*                                                                         *)
(* Python values:                                                          *)
(*   - a dict whose iteration order is observed (keyed by date) is a       *)
(*     sequence of entries [key |-> k, val |-> v] in insertion order;      *)
(*   - a dict that is only indexed is a function;                          *)
(*   - None is the empty tuple and a non-None value v is <<v>>.            *)
(***************************************************************************)
EXTENDS Integers, Sequences, FiniteSets, TLC

\* ------------------------------------------------------------------ bounds
MaxDate == 2

Dates   == 1..MaxDate
Clients == {"c1", "c2"}
Persons == {"sp1", "sp2"}
Funds   == {"f1"}
Amounts == {1, 2}

VARIABLES
    pc,                       \* position of the process in app.py
    loads,                    \* number of calls of load_and_process_data
    reports,                  \* number of failures reported by the except block
    failed_at,                \* the stage whose exception was caught, or "none"
    ran,                      \* stages called so far
    client_sales,             \* local of load_and_process_data
    daily_income, sales_income, client_income,
    fund_stats, forecasts,
    sales_person_breakdowns, client_breakdowns,
    assigned,                 \* names of the globals the pipeline has stored
    snapshot,                 \* history: the globals as load_and_process_data left them
    response,                 \* response of the last request served in sequence
    thr                       \* worker threads serving requests concurrently

globals == <<daily_income, sales_income, client_income, fund_stats, forecasts,
             sales_person_breakdowns, client_breakdowns>>

vars == <<pc, loads, reports, failed_at, ran, client_sales, globals, assigned,
          snapshot, response, thr>>

\* ------------------------------------------------------------ Python values
None == <<>>
Some(v) == <<v>>
EmptyDict == <<>>

Keys(d) == {d[i].key : i \in 1..Len(d)}
Lookup(d, k) == d[CHOOSE i \in 1..Len(d) : d[i].key = k].val

RECURSIVE SumOver(_, _)
SumOver(f, S) ==
    IF S = {} THEN 0
    ELSE LET x == CHOOSE y \in S : TRUE IN f[x] + SumOver(f, S \ {x})

\* sum(d.values())
sum_values(f) == SumOver(f, DOMAIN f)

\* max(d.keys())
max_key(d) == CHOOSE k \in Keys(d) : \A j \in Keys(d) : j <= k

\* set -> list, in the one iteration order the process gives that set
RECURSIVE list_of(_)
list_of(S) ==
    IF S = {} THEN <<>>
    ELSE LET x == CHOOSE y \in S : TRUE IN <<x>> \o list_of(S \ {x})

\* --------------------------------------------- results of the stages (spec)
\* One day of DailyIncome: client -> (fund -> income).
DayBooks == UNION {[cs -> [Funds -> Amounts]] : cs \in SUBSET Clients}

\* Date keys of a result, in the order the stage inserted them.
Orders ==
    UNION {{o \in [1..n -> Dates] : \A i, j \in 1..n : i # j => o[i] # o[j]}
           : n \in 0..MaxDate}

\* DailyIncome: date -> client -> fund -> income.
Ledgers ==
    UNION {{[i \in 1..Len(o) |-> [key |-> o[i], val |-> b[i]]]
            : b \in [1..Len(o) -> DayBooks]} : o \in Orders}

\* ClientSales: client -> assigned salesperson.
ClientLists == {cl \in [Clients -> Persons] : cl["c1"] = "sp1"}

client_total(book, c) == sum_values(book[c])

\* income of one day summed over clients and funds
day_total(book) == sum_values([c \in DOMAIN book |-> client_total(book, c)])

\* the by-client view of one day
client_view(book) == [c \in DOMAIN book |-> client_total(book, c)]

\* the by-salesperson view of one day
sales_view(book, cl) ==
    [sp \in {cl[c] : c \in DOMAIN book} |->
        SumOver([c \in DOMAIN book |-> client_total(book, c)],
                {c \in DOMAIN book : cl[c] = sp})]

ClientIncomeOf(di) ==
    [i \in 1..Len(di) |-> [key |-> di[i].key, val |-> client_view(di[i].val)]]

SalesIncomeOf(di, cl) ==
    [i \in 1..Len(di) |-> [key |-> di[i].key, val |-> sales_view(di[i].val, cl)]]

fund_total(book, f, cs) ==
    SumOver([c \in cs |-> book[c][f]], {c \in cs : f \in DOMAIN book[c]})

funds_of(book, cs) == UNION {DOMAIN book[c] : c \in cs}

\* FundStats: one row per fund with the count, min and max of its daily income
\* (mean and std are not integers and no handler computes with them).
FundStatsOf(di) ==
    LET fs == UNION {funds_of(di[i].val, DOMAIN di[i].val) : i \in 1..Len(di)}
        days(f) == {i \in 1..Len(di) : f \in funds_of(di[i].val, DOMAIN di[i].val)}
        v(f, i) == fund_total(di[i].val, f, DOMAIN di[i].val)
    IN [f \in fs |->
          [count |-> Cardinality(days(f)),
           min   |-> CHOOSE m \in {v(f, i) : i \in days(f)} :
                        \A i \in days(f) : m <= v(f, i),
           max   |-> CHOOSE m \in {v(f, i) : i \in days(f)} :
                        \A i \in days(f) : m >= v(f, i)]]

\* Forecasts: fund -> projected points; the projection carries the income of
\* the latest known day forward.
ForecastsOf(di) ==
    LET fs == UNION {funds_of(di[i].val, DOMAIN di[i].val) : i \in 1..Len(di)}
        last == Lookup(di, max_key(di))
    IN [f \in fs |->
          IF f \in funds_of(last, DOMAIN last)
          THEN <<fund_total(last, f, DOMAIN last)>> ELSE <<>>]

\* Breakdown by salesperson: date -> salesperson -> {clients, funds}.
SalesPersonBreakdownsOf(di, cl) ==
    [d \in Keys(di) |->
        LET book == Lookup(di, d) IN
        [sp \in {cl[c] : c \in DOMAIN book} |->
            LET mine == {c \in DOMAIN book : cl[c] = sp} IN
            [clients |-> [c \in mine |-> client_total(book, c)],
             funds   |-> [f \in funds_of(book, mine) |-> fund_total(book, f, mine)]]]]

\* Breakdown by client: date -> client -> total income.
ClientBreakdownsOf(di) == [d \in Keys(di) |-> client_view(Lookup(di, d))]

\* ---------------------------------------------------------------- responses
NoResponse == [handler |-> "none", kind |-> "none", status |-> 0, body |-> <<>>]
Json(h, b) == [handler |-> h, kind |-> "data", status |-> 200, body |-> b]
\* jsonify({"error": "Data not loaded"}), 500
NotLoaded(h) == [handler |-> h, kind |-> "not_loaded", status |-> 500, body |-> <<>>]
\* an exception that leaves the view function
Raised(h) == [handler |-> h, kind |-> "raise", status |-> 500, body |-> <<>>]

Idle == [h |-> "idle", at |-> "idle", acc |-> <<>>, rsp |-> NoResponse]
Threads == {1, 2}

\* --------------------------------------------------------------------- Init
Init ==
    /\ pc = "import"
    /\ loads = 0
    /\ reports = 0
    /\ failed_at = "none"
    /\ ran = {}
    /\ client_sales = None
    /\ daily_income = EmptyDict
    /\ sales_income = EmptyDict
    /\ client_income = EmptyDict
    /\ fund_stats = None
    /\ forecasts = None
    /\ sales_person_breakdowns = EmptyDict
    /\ client_breakdowns = EmptyDict
    /\ assigned = {}
    /\ snapshot = None
    /\ response = NoResponse
    /\ thr = [t \in Threads |-> Idle]

\* ------------------------------------------- load_and_process_data, by line
Stages == <<"load_initial_holdings", "load_trades", "load_product_info",
            "load_client_sales", "calculate_daily_holdings",
            "calculate_daily_income", "cumulative_sales_income",
            "cumulative_client_income", "show_income_statistics",
            "generate_forecasts", "generate_sales_person_breakdowns",
            "generate_client_breakdowns">>

LoaderStages == {Stages[i] : i \in 1..4}
ComputeStages == {Stages[i] : i \in 5..12}

\* on_exception with the exception raised again after it is reported
on_exception_reraise(stage) ==
    /\ pc' = "crashed"
    /\ reports' = reports + 1
    /\ failed_at' = stage

\* except Exception as e: print(...); print(traceback.format_exc())
on_exception(stage) ==
    /\ pc' = "serving"
    /\ reports' = reports + 1
    /\ failed_at' = stage

\* the stage raises inside the try block: nothing more is stored
raises(stage) ==
    /\ on_exception(stage)
    /\ client_sales' = None
    /\ UNCHANGED <<globals, assigned>>
    /\ snapshot' = Some(globals')

\* the stage returns and the next statement is reached
returns(next) ==
    /\ pc' = next
    /\ snapshot' = IF next = "serving" THEN Some(globals') ELSE snapshot
    /\ UNCHANGED <<reports, failed_at>>

\* a stage whose result stays in a local that no handler and no later model
\* step reads
local_stage(stage, next) ==
    /\ pc = stage
    /\ ran' = ran \cup {stage}
    /\ \/ returns(next) /\ UNCHANGED <<client_sales, globals, assigned>>
       \/ raises(stage)
    /\ UNCHANGED <<loads, response, thr>>

\* load_and_process_data() at module level
startup ==
    /\ pc = "import"
    /\ pc' = "load_initial_holdings"
    /\ loads' = loads + 1
    /\ UNCHANGED <<reports, failed_at, ran, client_sales, globals, assigned,
                   snapshot, response, thr>>

load_initial_holdings == local_stage("load_initial_holdings", "load_trades")

load_trades == local_stage("load_trades", "load_product_info")

load_product_info == local_stage("load_product_info", "load_client_sales")

load_client_sales ==
    /\ pc = "load_client_sales"
    /\ ran' = ran \cup {"load_client_sales"}
    /\ \/ /\ \E cl \in ClientLists : client_sales' = Some(cl)
          /\ returns("calculate_daily_holdings")
          /\ UNCHANGED <<globals, assigned>>
       \/ raises("load_client_sales")
    /\ UNCHANGED <<loads, response, thr>>

calculate_daily_holdings ==
    local_stage("calculate_daily_holdings", "calculate_daily_income")

\* daily_income, sales_income, client_income = calculate_daily_income(...)
calculate_daily_income_from(ledgers) ==
    /\ pc = "calculate_daily_income"
    /\ ran' = ran \cup {"calculate_daily_income"}
    /\ \/ /\ \E di \in ledgers :
                /\ daily_income' = di
                /\ sales_income' = SalesIncomeOf(di, client_sales[1])
                /\ client_income' = ClientIncomeOf(di)
          /\ assigned' = assigned \cup {"daily_income", "sales_income", "client_income"}
          /\ returns("cumulative_sales_income")
          /\ UNCHANGED <<client_sales, fund_stats, forecasts,
                         sales_person_breakdowns, client_breakdowns>>
       \/ raises("calculate_daily_income")
    /\ UNCHANGED <<loads, response, thr>>

calculate_daily_income == calculate_daily_income_from(Ledgers)

cumulative_sales_income ==
    local_stage("cumulative_sales_income", "cumulative_client_income")

cumulative_client_income ==
    local_stage("cumulative_client_income", "show_income_statistics")

\* show_income_statistics with the forecast computed and stored in its place
show_income_statistics_swapped ==
    /\ pc = "show_income_statistics"
    /\ ran' = ran \cup {"show_income_statistics"}
    /\ \/ /\ forecasts' = Some(ForecastsOf(daily_income))
          /\ assigned' = assigned \cup {"forecasts"}
          /\ returns("generate_forecasts")
          /\ UNCHANGED <<client_sales, daily_income, sales_income, client_income,
                         fund_stats, sales_person_breakdowns, client_breakdowns>>
       \/ raises("show_income_statistics")
    /\ UNCHANGED <<loads, response, thr>>

\* client_stats, fund_stats, sales_stats = show_income_statistics(...)
show_income_statistics ==
    /\ pc = "show_income_statistics"
    /\ ran' = ran \cup {"show_income_statistics"}
    /\ \/ /\ fund_stats' = Some(FundStatsOf(daily_income))
          /\ assigned' = assigned \cup {"fund_stats"}
          /\ returns("generate_forecasts")
          /\ UNCHANGED <<client_sales, daily_income, sales_income, client_income,
                         forecasts, sales_person_breakdowns, client_breakdowns>>
       \/ raises("show_income_statistics")
    /\ UNCHANGED <<loads, response, thr>>

generate_forecasts ==
    /\ pc = "generate_forecasts"
    /\ ran' = ran \cup {"generate_forecasts"}
    /\ \/ /\ forecasts' = Some(ForecastsOf(daily_income))
          /\ assigned' = assigned \cup {"forecasts"}
          /\ returns("generate_sales_person_breakdowns")
          /\ UNCHANGED <<client_sales, daily_income, sales_income, client_income,
                         fund_stats, sales_person_breakdowns, client_breakdowns>>
       \/ raises("generate_forecasts")
    /\ UNCHANGED <<loads, response, thr>>

generate_sales_person_breakdowns ==
    /\ pc = "generate_sales_person_breakdowns"
    /\ ran' = ran \cup {"generate_sales_person_breakdowns"}
    /\ \/ /\ sales_person_breakdowns' =
                SalesPersonBreakdownsOf(daily_income, client_sales[1])
          /\ assigned' = assigned \cup {"sales_person_breakdowns"}
          /\ returns("generate_client_breakdowns")
          /\ UNCHANGED <<client_sales, daily_income, sales_income, client_income,
                         fund_stats, forecasts, client_breakdowns>>
       \/ raises("generate_sales_person_breakdowns")
    /\ UNCHANGED <<loads, response, thr>>

\* the last statement of the try block: the function returns after it
generate_client_breakdowns ==
    /\ pc = "generate_client_breakdowns"
    /\ ran' = ran \cup {"generate_client_breakdowns"}
    /\ \/ /\ client_breakdowns' = ClientBreakdownsOf(daily_income)
          /\ assigned' = assigned \cup {"client_breakdowns"}
          /\ client_sales' = None
          /\ UNCHANGED <<daily_income, sales_income, client_income,
                         fund_stats, forecasts, sales_person_breakdowns>>
          /\ returns("serving")
       \/ raises("generate_client_breakdowns")
    /\ UNCHANGED <<loads, response, thr>>

\* the statements of the try block other than the call of
\* calculate_daily_income
other_stages ==
    \/ load_initial_holdings
    \/ load_trades
    \/ load_product_info
    \/ load_client_sales
    \/ calculate_daily_holdings
    \/ cumulative_sales_income
    \/ cumulative_client_income
    \/ show_income_statistics
    \/ generate_forecasts
    \/ generate_sales_person_breakdowns
    \/ generate_client_breakdowns

load_and_process_data ==
    \/ other_stages
    \/ calculate_daily_income

\* ---------------------------------------------------------- request handlers
\* income_trend: one entry per item of daily_income.items(), in that order
income_trend_of(di) ==
    [i \in 1..Len(di) |-> [date |-> di[i].key, income |-> day_total(di[i].val)]]

\* latest_date = max(daily_income.keys())
latest_date_of(di) == max_key(di)

\* get_dashboard, from the values it reads
dashboard_view(di, ci, fs, si) ==
    IF di = EmptyDict THEN NotLoaded("get_dashboard")
    ELSE LET latest_date == latest_date_of(di) IN
         IF latest_date \notin Keys(ci) \/ latest_date \notin Keys(si)
         THEN Raised("get_dashboard")
         ELSE Json("get_dashboard",
               [total_income  |-> day_total(Lookup(di, latest_date)),
                total_clients |-> Cardinality(DOMAIN Lookup(ci, latest_date)),
                total_funds   |-> IF fs = None THEN 0
                                  ELSE Cardinality(DOMAIN fs[1]),
                total_sales   |-> Cardinality(DOMAIN Lookup(si, latest_date)),
                income_trend  |-> income_trend_of(di)])

\* the first loop of get_sales: dailyContribution
daily_contribution_of(si) ==
    [i \in 1..Len(si) |-> [date |-> si[i].key, by |-> si[i].val]]

\* set(person for daily in sales_income.values() for person in daily.keys())
sales_persons_of(si) == UNION {DOMAIN si[i].val : i \in 1..Len(si)}

\* the lookups sales_person_breakdowns[date][sales_person] of the inner loop
breakdown_missing(si, spb) ==
    \E i \in 1..Len(si) : \E sp \in DOMAIN si[i].val :
        \/ si[i].key \notin DOMAIN spb
        \/ sp \notin DOMAIN spb[si[i].key]

\* cumulative_income_of with "=" in place of "+="
RECURSIVE cumulative_income_assign(_, _, _)
cumulative_income_assign(si, sp, n) ==
    IF n = 0 THEN 0
    ELSE IF sp \in DOMAIN si[n].val THEN si[n].val[sp]
    ELSE cumulative_income_assign(si, sp, n - 1)

\* cumulative_income += daily[sales_person], over the first n dates
RECURSIVE cumulative_income_of(_, _, _)
cumulative_income_of(si, sp, n) ==
    IF n = 0 THEN 0
    ELSE cumulative_income_of(si, sp, n - 1)
         + (IF sp \in DOMAIN si[n].val THEN si[n].val[sp] ELSE 0)

\* individualPerformance[sales_person], over the first n dates
RECURSIVE performance_of(_, _, _, _)
performance_of(si, spb, sp, n) ==
    IF n = 0 THEN <<>>
    ELSE performance_of(si, spb, sp, n - 1)
         \o (IF sp \in DOMAIN si[n].val
             THEN <<[date    |-> si[n].key,
                     income  |-> si[n].val[sp],
                     clients |-> spb[si[n].key][sp].clients,
                     funds   |-> spb[si[n].key][sp].funds]>>
             ELSE <<>>)

\* the people the second loop of get_sales visits, one append each
visited_persons(si) == list_of(sales_persons_of(si))

\* the entry appended to salesPersons for one salesperson
sales_person_entry(si, spb, sp) ==
    LET days == {i \in 1..Len(si) : sp \in DOMAIN si[i].val} IN
    [name             |-> sp,
     cumulativeIncome |-> cumulative_income_of(si, sp, Len(si)),
     topClients       |-> UNION {DOMAIN spb[si[i].key][sp].clients : i \in days},
     topFunds         |-> UNION {DOMAIN spb[si[i].key][sp].funds : i \in days}]

\* get_sales, from the values it reads
sales_view_of(si, spb) ==
    IF si = EmptyDict THEN NotLoaded("get_sales")
    ELSE IF breakdown_missing(si, spb) THEN Raised("get_sales")
    ELSE LET people == visited_persons(si) IN
         Json("get_sales",
           [salesPersons |->
                [k \in 1..Len(people) |-> sales_person_entry(si, spb, people[k])],
            dailyContribution |-> daily_contribution_of(si),
            individualPerformance |->
                [sp \in sales_persons_of(si) |-> performance_of(si, spb, sp, Len(si))]])

\* get_clients, from the value it reads
clients_view(ci) ==
    IF ci = EmptyDict THEN NotLoaded("get_clients")
    ELSE LET latest == Lookup(ci, max_key(ci)) IN
         Json("get_clients",
              {[name |-> c, income |-> latest[c]] : c \in DOMAIN latest})

\* get_funds, from the value it reads.  The try block converts the table row
\* by row; with a table of the shape show_income_statistics returns the
\* conversion does not raise.
funds_view(fs) ==
    IF fs = None THEN NotLoaded("get_funds")
    ELSE Json("get_funds", fs[1])

\* get_forecast, from the value it reads
forecast_view(fc) ==
    IF fc = None THEN NotLoaded("get_forecast")
    ELSE Json("get_forecast", fc[1])

\* a whole request served without another one running
serve(rsp) ==
    /\ pc = "serving"
    /\ response' = rsp
    /\ UNCHANGED <<pc, loads, reports, failed_at, ran, client_sales, globals,
                   assigned, snapshot, thr>>

\* sales_income after daily_data = sales_income[date]; daily_data['date'] = ...
\* (the day's own dict updated in place of a new one)
with_date_key(si) ==
    [i \in 1..Len(si) |->
        [key |-> si[i].key,
         val |-> [k \in DOMAIN si[i].val \cup {"date"} |->
                    IF k = "date" THEN si[i].key ELSE si[i].val[k]]]]

catch_all == serve(Json("catch_all", "index.html"))

test == serve(Json("test", "API is working"))

\* get_dashboard running the pipeline again when it finds nothing loaded
get_dashboard_reload ==
    /\ pc = "serving"
    /\ response' = dashboard_view(daily_income, client_income, fund_stats, sales_income)
    /\ IF daily_income = EmptyDict
       THEN pc' = "load_initial_holdings" /\ loads' = loads + 1
       ELSE UNCHANGED <<pc, loads>>
    /\ UNCHANGED <<reports, failed_at, ran, client_sales, globals, assigned,
                   snapshot, thr>>

get_dashboard ==
    serve(dashboard_view(daily_income, client_income, fund_stats, sales_income))

\* get_sales building dailyContribution in the dicts of sales_income
get_sales_inplace ==
    /\ pc = "serving"
    /\ response' = sales_view_of(sales_income, sales_person_breakdowns)
    /\ sales_income' = with_date_key(sales_income)
    /\ UNCHANGED <<pc, loads, reports, failed_at, ran, client_sales, daily_income,
                   client_income, fund_stats, forecasts, sales_person_breakdowns,
                   client_breakdowns, assigned, snapshot, thr>>

get_sales == serve(sales_view_of(sales_income, sales_person_breakdowns))

get_clients == serve(clients_view(client_income))

get_funds == serve(funds_view(fund_stats))

get_forecast == serve(forecast_view(forecasts))

Next ==
    \/ startup
    \/ load_and_process_data
    \/ catch_all
    \/ test
    \/ get_dashboard
    \/ get_sales
    \/ get_clients
    \/ get_funds
    \/ get_forecast

Spec == Init /\ [][Next]_vars

\* ------------------------------------------- requests served concurrently
\* Each worker thread runs one view function at a time, statement by
\* statement; every step reads the globals as they are at that moment.
ThreadHandlers == {"test", "get_dashboard", "get_sales", "get_clients",
                   "get_funds", "get_forecast"}

goto(t, at, acc) == thr' = [thr EXCEPT ![t].at = at, ![t].acc = acc]

finish(t, rsp) ==
    thr' = [thr EXCEPT ![t].at = "done", ![t].acc = <<>>, ![t].rsp = rsp]

running(t, h, at) ==
    /\ pc = "serving"
    /\ thr[t].h = h
    /\ thr[t].at = at
    /\ UNCHANGED <<pc, loads, reports, failed_at, ran, client_sales, assigned,
                   snapshot, response>>

\* a request arrives and is dispatched to an idle worker
begin(t) ==
    /\ pc = "serving"
    /\ thr[t] = Idle
    /\ \E h \in ThreadHandlers :
          thr' = [thr EXCEPT ![t] = [h |-> h, at |-> "guard", acc |-> <<>>,
                                     rsp |-> NoResponse]]
    /\ UNCHANGED <<pc, loads, reports, failed_at, ran, client_sales, globals,
                   assigned, snapshot, response>>

\* the response is sent and the worker is free again
reply(t) ==
    /\ pc = "serving"
    /\ thr[t].at = "done"
    /\ thr' = [thr EXCEPT ![t] = Idle]
    /\ UNCHANGED <<pc, loads, reports, failed_at, ran, client_sales, globals,
                   assigned, snapshot, response>>

t_test(t) ==
    /\ running(t, "test", "guard")
    /\ finish(t, Json("test", "API is working"))
    /\ UNCHANGED globals

\* if not daily_income: return ..., 500
t_dashboard_guard(t) ==
    /\ running(t, "get_dashboard", "guard")
    /\ IF daily_income = EmptyDict
       THEN finish(t, NotLoaded("get_dashboard"))
       ELSE goto(t, "totals", <<>>)
    /\ UNCHANGED globals

\* latest_date, total_income, total_clients, total_funds, total_sales
t_dashboard_totals(t) ==
    /\ running(t, "get_dashboard", "totals")
    /\ LET latest_date == latest_date_of(daily_income) IN
       IF latest_date \notin Keys(client_income) \/ latest_date \notin Keys(sales_income)
       THEN finish(t, Raised("get_dashboard"))
       ELSE goto(t, "trend",
               [total_income  |-> day_total(Lookup(daily_income, latest_date)),
                total_clients |-> Cardinality(DOMAIN Lookup(client_income, latest_date)),
                total_funds   |-> IF fund_stats = None THEN 0
                                  ELSE Cardinality(DOMAIN fund_stats[1]),
                total_sales   |-> Cardinality(DOMAIN Lookup(sales_income, latest_date))])
    /\ UNCHANGED globals

\* income_trend and the return
t_dashboard_trend(t) ==
    /\ running(t, "get_dashboard", "trend")
    /\ finish(t, Json("get_dashboard",
               [total_income  |-> thr[t].acc.total_income,
                total_clients |-> thr[t].acc.total_clients,
                total_funds   |-> thr[t].acc.total_funds,
                total_sales   |-> thr[t].acc.total_sales,
                income_trend  |-> income_trend_of(daily_income)]))
    /\ UNCHANGED globals

\* if not sales_income: return ..., 500
t_sales_guard(t) ==
    /\ running(t, "get_sales", "guard")
    /\ IF sales_income = EmptyDict
       THEN finish(t, NotLoaded("get_sales"))
       ELSE goto(t, "contribution", <<>>)
    /\ UNCHANGED globals

\* t_sales_contribution building dailyContribution in the dicts of sales_income
t_sales_contribution_inplace(t) ==
    /\ running(t, "get_sales", "contribution")
    /\ goto(t, "people", daily_contribution_of(with_date_key(sales_income)))
    /\ sales_income' = with_date_key(sales_income)
    /\ UNCHANGED <<daily_income, client_income, fund_stats, forecasts,
                   sales_person_breakdowns, client_breakdowns>>

\* the first loop: daily_data is a new dict, updated from sales_income[date]
t_sales_contribution(t) ==
    /\ running(t, "get_sales", "contribution")
    /\ goto(t, "people", daily_contribution_of(sales_income))
    /\ UNCHANGED globals

\* the second loop and the return
t_sales_people(t) ==
    /\ running(t, "get_sales", "people")
    /\ IF breakdown_missing(sales_income, sales_person_breakdowns)
       THEN finish(t, Raised("get_sales"))
       ELSE LET people == visited_persons(sales_income) IN
            finish(t, Json("get_sales",
              [salesPersons |->
                   [k \in 1..Len(people) |->
                       sales_person_entry(sales_income, sales_person_breakdowns,
                                          people[k])],
               dailyContribution |-> thr[t].acc,
               individualPerformance |->
                   [sp \in sales_persons_of(sales_income) |->
                       performance_of(sales_income, sales_person_breakdowns, sp,
                                      Len(sales_income))]]))
    /\ UNCHANGED globals

t_clients_guard(t) ==
    /\ running(t, "get_clients", "guard")
    /\ IF client_income = EmptyDict
       THEN finish(t, NotLoaded("get_clients"))
       ELSE goto(t, "body", <<>>)
    /\ UNCHANGED globals

t_clients_body(t) ==
    /\ running(t, "get_clients", "body")
    /\ finish(t, clients_view(client_income))
    /\ UNCHANGED globals

t_funds_guard(t) ==
    /\ running(t, "get_funds", "guard")
    /\ IF fund_stats = None
       THEN finish(t, NotLoaded("get_funds"))
       ELSE goto(t, "body", <<>>)
    /\ UNCHANGED globals

t_funds_body(t) ==
    /\ running(t, "get_funds", "body")
    /\ finish(t, funds_view(fund_stats))
    /\ UNCHANGED globals

t_forecast_guard(t) ==
    /\ running(t, "get_forecast", "guard")
    /\ IF forecasts = None
       THEN finish(t, NotLoaded("get_forecast"))
       ELSE goto(t, "body", <<>>)
    /\ UNCHANGED globals

t_forecast_body(t) ==
    /\ running(t, "get_forecast", "body")
    /\ finish(t, forecast_view(forecasts))
    /\ UNCHANGED globals

worker(t) ==
    \/ begin(t)
    \/ reply(t)
    \/ t_test(t)
    \/ t_dashboard_guard(t)
    \/ t_dashboard_totals(t)
    \/ t_dashboard_trend(t)
    \/ t_sales_guard(t)
    \/ t_sales_contribution(t)
    \/ t_sales_people(t)
    \/ t_clients_guard(t)
    \/ t_clients_body(t)
    \/ t_funds_guard(t)
    \/ t_funds_body(t)
    \/ t_forecast_guard(t)
    \/ t_forecast_body(t)

\* The interleavings are explored over the ledgers whose days are either
\* without income or hold one unit of income for every client.
EmptyBook == [c \in {} |-> <<>>]
FullBook == [c \in Clients |-> [f \in Funds |-> 1]]
SampleLedgers ==
    {l \in Ledgers : \A i \in 1..Len(l) : l[i].val \in {EmptyBook, FullBook}}

NextConc ==
    \/ startup
    \/ other_stages
    \/ calculate_daily_income_from(SampleLedgers)
    \/ \E t \in Threads : worker(t)

SpecConc == Init /\ [][NextConc]_vars

\* ------------------------------------------------------------------ claims
InitialGlobals ==
    /\ daily_income = EmptyDict
    /\ sales_income = EmptyDict
    /\ client_income = EmptyDict
    /\ fund_stats = None
    /\ forecasts = None
    /\ sales_person_breakdowns = EmptyDict
    /\ client_breakdowns = EmptyDict

IncomeNames == {"daily_income", "sales_income", "client_income"}

DataHandlers == {"get_dashboard", "get_sales", "get_clients", "get_funds",
                 "get_forecast"}

\* C1: if load_and_process_data fails at any step, then after it returns all
\* seven process-wide variables still hold their initial values ({} or None).
C1_FailureLeavesGlobalsInitial ==
    (pc = "serving" /\ failed_at # "none") => InitialGlobals

\* C2: in every state reachable after startup, also after a pipeline that
\* failed part-way, each query handler answers "Data not loaded" or data; no
\* handler raises an unhandled exception.
C2_NoHandlerRaises ==
    response.handler \in DataHandlers => response.kind \in {"not_loaded", "data"}

\* C3: when the pipeline completes successfully, also with empty results,
\* get_dashboard, get_sales and get_clients do not answer "Data not loaded";
\* they answer it only when the pipeline did not load the structure.
C3_NotLoadedMeansNotLoaded ==
    (pc = "serving" /\ failed_at = "none"
       /\ response.handler \in {"get_dashboard", "get_sales", "get_clients"})
    => response.kind # "not_loaded"

\* every data endpoint answers "Data not loaded" in the current state
AllAnswerNotLoaded ==
    /\ dashboard_view(daily_income, client_income, fund_stats, sales_income).kind
          = "not_loaded"
    /\ sales_view_of(sales_income, sales_person_breakdowns).kind = "not_loaded"
    /\ clients_view(client_income).kind = "not_loaded"
    /\ funds_view(fund_stats).kind = "not_loaded"
    /\ forecast_view(forecasts).kind = "not_loaded"

\* C4: when an input file cannot be found or a loader fails, the pipeline
\* aborts before any computation stage runs, the failure is reported exactly
\* once, no exception escapes load_and_process_data, the seven variables keep
\* their initial values, and every data endpoint answers "Data not loaded" on
\* every request from then on.
C4_LoaderFailureAbortsCleanly ==
    failed_at \in LoaderStages =>
        /\ pc = "serving"
        /\ ran \cap ComputeStages = {}
        /\ reports = 1
        /\ InitialGlobals
        /\ AllAnswerNotLoaded
        /\ response.handler \in DataHandlers => response.kind = "not_loaded"

C4_Witness ==
    /\ pc = "serving"
    /\ failed_at = "load_product_info"
    /\ response.handler = "get_sales"
    /\ response.kind = "not_loaded"

\* C5: after startup no request changes the seven process-wide variables or
\* the mappings nested in them: they stay as load_and_process_data left them.
C5_HandlersKeepGlobals ==
    pc = "serving" => snapshot = Some(globals)

C5_Witness ==
    /\ pc = "serving"
    /\ response.handler = "get_sales"
    /\ response.kind = "data"
    /\ Len(sales_income) = 2
    /\ snapshot = Some(globals)

\* what a handler answers when it runs alone against the globals g
SoloResponse(h, g) ==
    CASE h = "test"          -> Json("test", "API is working")
      [] h = "get_dashboard" -> dashboard_view(g[1], g[3], g[4], g[2])
      [] h = "get_sales"     -> sales_view_of(g[2], g[6])
      [] h = "get_clients"   -> clients_view(g[3])
      [] h = "get_funds"     -> funds_view(g[4])
      [] h = "get_forecast"  -> forecast_view(g[5])

SameResponse(a, b) == a.kind = b.kind /\ a = b

\* C6: for any interleaving of concurrently running handlers, without locks,
\* every handler returns the response it would return when run alone against
\* the state startup left, and what a handler has read part-way is what that
\* state holds.
C6_InterleavingsAnswerAsAlone ==
    \A t \in Threads :
        /\ thr[t].at = "done" =>
              SameResponse(thr[t].rsp, SoloResponse(thr[t].h, snapshot[1]))
        /\ thr[t].at = "people" =>
              thr[t].acc = daily_contribution_of(snapshot[1][2])
        /\ thr[t].at = "trend" =>
              thr[t].acc.total_income =
                 day_total(Lookup(snapshot[1][1], max_key(snapshot[1][1])))

C6_Witness ==
    /\ thr[1].h = "get_sales"
    /\ thr[1].at = "done"
    /\ thr[1].rsp.kind = "data"
    /\ thr[2].h = "get_sales"
    /\ thr[2].at = "people"

\* C7: load_and_process_data is invoked exactly once per process, before any
\* request is handled; no handler or later event invokes it again, so a
\* failed pipeline is never retried and which structures are loaded never
\* changes afterwards.
C7_LoadedOnceBeforeRequests ==
    [][/\ loads' <= 1
       /\ response'.handler # "none" => (pc = "serving" /\ loads = 1)
       /\ pc = "serving" =>
             (pc' = "serving" /\ loads' = loads /\ assigned' = assigned)]_vars

C7_Witness ==
    /\ pc = "serving"
    /\ failed_at = "calculate_daily_holdings"
    /\ loads = 1
    /\ response.handler = "get_dashboard"
    /\ response.kind = "not_loaded"

\* the dates of sales_income on which a salesperson appears
days_of(sp) == {i \in 1..Len(sales_income) : sp \in DOMAIN sales_income[i].val}

\* C8: in the /api/sales response, every salesperson that appears on a date
\* of sales_income appears exactly once in salesPersons, and the reported
\* cumulativeIncome equals the sum of the salesperson's daily income over the
\* dates on which they appear, which equals the sum of the 'income' fields of
\* their individualPerformance entries.
C8_CumulativeIncomeIsTheSum ==
    (response.handler = "get_sales" /\ response.kind = "data") =>
        LET b == response.body IN
        \A sp \in UNION {DOMAIN sales_income[i].val : i \in 1..Len(sales_income)} :
            LET at == {k \in 1..Len(b.salesPersons) : b.salesPersons[k].name = sp}
                perf == b.individualPerformance[sp]
                total == SumOver([i \in days_of(sp) |-> sales_income[i].val[sp]],
                                 days_of(sp))
            IN /\ Cardinality(at) = 1
               /\ \A k \in at : b.salesPersons[k].cumulativeIncome = total
               /\ SumOver([k \in 1..Len(perf) |-> perf[k].income], 1..Len(perf))
                     = total

C8_Witness ==
    /\ response.handler = "get_sales"
    /\ response.kind = "data"
    /\ Cardinality(days_of("sp1")) = 2
    /\ Cardinality(days_of("sp2")) = 1
    /\ \E k \in 1..Len(response.body.salesPersons) :
          /\ response.body.salesPersons[k].name = "sp1"
          /\ response.body.salesPersons[k].cumulativeIncome = 3

\* C9: in /api/dashboard the latest date is the maximum date key of
\* daily_income whatever the insertion order, total_income equals the income
\* of the income_trend entry of that date, and income_trend has exactly one
\* entry per date key of daily_income, listed in ascending date order.
C9_TrendAscendingAndLatestIsMax ==
    (response.handler = "get_dashboard" /\ response.kind = "data") =>
        LET trend == response.body.income_trend
            top == CHOOSE d \in Keys(daily_income) :
                      \A e \in Keys(daily_income) : e <= d
        IN /\ \A d \in Keys(daily_income) :
                 Cardinality({i \in 1..Len(trend) : trend[i].date = d}) = 1
           /\ Len(trend) = Cardinality(Keys(daily_income))
           /\ \A i \in 1..Len(trend) :
                 trend[i].date = top => response.body.total_income = trend[i].income
           /\ \A i, j \in 1..Len(trend) : i < j => trend[i].date < trend[j].date

\* the globals stored by the statements that precede stage number k
StoredBefore(k) ==
    (IF k > 6 THEN IncomeNames ELSE {})
    \cup (IF k > 9 THEN {"fund_stats"} ELSE {})
    \cup (IF k > 10 THEN {"forecasts"} ELSE {})
    \cup (IF k > 11 THEN {"sales_person_breakdowns"} ELSE {})
    \cup (IF k > 12 THEN {"client_breakdowns"} ELSE {})

\* C10: the process-wide variables are stored in pipeline order: the three
\* income mappings together, then fund_stats, forecasts,
\* sales_person_breakdowns, client_breakdowns.  What is stored is always a
\* prefix of that sequence; a failure at one step leaves every later variable
\* at its initial value and every earlier one stored.
C10_StoredInPipelineOrder ==
    /\ \E k \in 1..13 : assigned = StoredBefore(k)
    /\ \A k \in 1..12 :
          (pc = "serving" /\ failed_at = Stages[k]) => assigned = StoredBefore(k)
    /\ (pc = "serving" /\ failed_at = "none") => assigned = StoredBefore(13)
    /\ IncomeNames \cap assigned = {} =>
          (daily_income = EmptyDict /\ sales_income = EmptyDict
             /\ client_income = EmptyDict)
    /\ "fund_stats" \notin assigned => fund_stats = None
    /\ "fund_stats" \in assigned => fund_stats # None
    /\ "forecasts" \notin assigned => forecasts = None
    /\ "forecasts" \in assigned => forecasts # None
    /\ "sales_person_breakdowns" \notin assigned =>
          sales_person_breakdowns = EmptyDict
    /\ "client_breakdowns" \notin assigned => client_breakdowns = EmptyDict

C10_Witness ==
    /\ pc = "serving"
    /\ failed_at = "generate_sales_person_breakdowns"
    /\ assigned = IncomeNames \cup {"fund_stats", "forecasts"}
    /\ Len(daily_income) = 2
    /\ forecasts # None
    /\ sales_person_breakdowns = EmptyDict

====
